---- MODULE Spec2Model ----
(***************************************************************************)
(* A model of torch_helper.py: the annotation-driven call adapter          *)
(* torch_func / torch_wrap with the tensor coercion to_torch, and the      *)
(* gradient helpers grad and nth_grad.                                     *)
(*                                                                         *)
(* Spec      one call of an adapted function, step by step                 *)
(* GradSpec  one call of grad or of nth_grad, step by step                 *)
(***************************************************************************)
EXTENDS Integers, Sequences, FiniteSets, TLC

VARIABLES
    func,          \* the wrapped function: params, defaults, __annotations__
    args,          \* *args of the call
    kwargs,        \* **kwargs of the call
    pc,            \* position inside torch_wrap
    all_kwargs,    \* the bound argument set (line 69)
    torch_kwargs,  \* the coerced argument set (line 71)
    i,             \* index of the loop over func.__annotations__.items()
    v,             \* the loop's local variable v
    warnings,      \* warnings emitted by warn(), in order
    printed,       \* what print() wrote, in order
    calls,         \* invocations of the target function, in order
    caught,        \* the exception the bare except caught
    outcome,       \* how the call of the adapted function ended
    g              \* the state of a call of grad / nth_grad

vars == <<func, args, kwargs, pc, all_kwargs, torch_kwargs, i, v,
          warnings, printed, calls, caught, outcome, g>>

wrapVars == <<func, args, kwargs, pc, all_kwargs, torch_kwargs, i, v,
              warnings, printed, calls, caught, outcome>>

(***************************************************************************)
(* Bounds of the model                                                     *)
(***************************************************************************)
\* most positional arguments of a call
MaxArgs == 2
\* most keyword arguments of a call
MaxKw == 1
\* largest order n given to nth_grad
MaxOrder == 3

\* the declared parameters a modelled function draws from, in declaration
\* order; a function declares a non-empty prefix of them
ParamNames == <<"a", "b">>
\* a keyword that no modelled function declares
UnknownKw == "zz"
\* the key Python stores a return annotation under
ReturnKey == "return"

Min(x, y) == IF x <= y THEN x ELSE y

(***************************************************************************)
(* Python dicts: functions over a finite set of keys                       *)
(***************************************************************************)
EmptyDict == << >>

\* {**d1, **d2}: the later dict wins on a shared key
Merge(d1, d2) ==
    [k \in (DOMAIN d1) \cup (DOMAIN d2) |->
        IF k \in DOMAIN d2 THEN d2[k] ELSE d1[k]]

\* d[key] = val
Store(d, key, val) ==
    [k \in (DOMAIN d) \cup {key} |-> IF k = key THEN val ELSE d[k]]

Range(s) == {s[k] : k \in DOMAIN s}

(***************************************************************************)
(* Values: every supplied argument is an object of its own, named by where *)
(* it came from; kind is what isinstance / torch.tensor see in it          *)
(***************************************************************************)
FloatTensor == "FloatTensor"
DoubleTensor == "DoubleTensor"
IntTensor == "IntTensor"

NoOrigin == [src |-> "none", pos |-> 0, name |-> ""]

\* a value that is not a torch.Tensor; torch.tensor() accepts it iff wellformed
RawValue(origin, wellformed) ==
    [origin |-> origin, kind |-> IF wellformed THEN "raw" ELSE "malformed",
     dtype |-> "none", requires_grad |-> FALSE, converted |-> FALSE]

\* a value that is already a torch.Tensor
TensorValue(origin, tracked) ==
    [origin |-> origin, kind |-> "tensor", dtype |-> FloatTensor,
     requires_grad |-> tracked, converted |-> FALSE]

\* the state of the local v before any assignment to it
Unbound ==
    [origin |-> NoOrigin, kind |-> "unbound", dtype |-> "none",
     requires_grad |-> FALSE, converted |-> FALSE]

ValuesFrom(origin) ==
    {RawValue(origin, TRUE), RawValue(origin, FALSE),
     TensorValue(origin, TRUE), TensorValue(origin, FALSE)}

PosOrigin(k) == [src |-> "positional", pos |-> k, name |-> ""]
KwOrigin(n) == [src |-> "keyword", pos |-> 0, name |-> n]
DefaultOrigin(n) == [src |-> "default", pos |-> 0, name |-> n]

\* the values a keyword argument may carry
KwValues(n) ==
    IF n = UnknownKw THEN {RawValue(KwOrigin(n), TRUE)} ELSE ValuesFrom(KwOrigin(n))

(***************************************************************************)
(* Annotations: a sequence of tags and {'dtype': ...} dicts                *)
(***************************************************************************)
Tag(s) == [isdict |-> FALSE, s |-> s]
DTypeDict(d) == [isdict |-> TRUE, s |-> d]

Annotations ==
    { <<Tag("tensor")>>,
      <<Tag("any")>>,
      <<Tag("bogus")>>,
      <<Tag("any"), Tag("tensor")>>,
      <<Tag("tensor"), Tag("detach"), Tag("requires_grad")>>,
      <<Tag("tensor"), DTypeDict(DoubleTensor), DTypeDict(IntTensor), Tag("detach")>>,
      <<Tag("tensor"), DTypeDict(IntTensor), Tag("requires_grad")>> }

\* 'tag' in annotation
In(tag, annotation) == \E k \in DOMAIN annotation : annotation[k] = Tag(tag)

\* lines 73-77: the first dtype modifier, FloatTensor when there is none
IsDTypeDict(a) == a.isdict
DTypeOf(annotation) ==
    LET dtypes == SelectSeq(annotation, IsDTypeDict)
    IN  IF Len(dtypes) = 0 THEN FloatTensor ELSE dtypes[1].s

(***************************************************************************)
(* Exceptions and results                                                  *)
(***************************************************************************)
NoExc == [type |-> "none", step |-> "none"]
Exc(type, step) == [type |-> type, step |-> step]

NoRet == [from |-> "none", received |-> EmptyDict]
\* what the target function returns: a value determined by what it received
Ret(received) == [from |-> "target", received |-> received]

Pending == [status |-> "pending", ret |-> NoRet, exc |-> NoExc]
Returned(r) == [status |-> "returned", ret |-> r, exc |-> NoExc]
Raised(e) == [status |-> "raised", ret |-> NoRet, exc |-> e]

(***************************************************************************)
(* to_torch (lines 45-60), single-value form                               *)
(***************************************************************************)
IsFloating(dtype) == dtype \in {FloatTensor, DoubleTensor}

\* a to_torch that forgets the detach option
DetachNever(T, detach) == T

\* T.detach() if detach else T
DetachIf(T, detach) ==
    IF detach THEN [T EXCEPT !.requires_grad = FALSE] ELSE T

\* convert(var): [exc, val]
ToTorch(var, dtype, requires_grad, detach) ==
    IF var.kind = "tensor"
    THEN \* var.type(dtype): a cast to a non-floating type ends the tracking
         [exc |-> NoExc,
          val |-> DetachIf([var EXCEPT !.dtype = dtype,
                                       !.requires_grad = var.requires_grad /\ IsFloating(dtype),
                                       !.converted = TRUE], detach)]
    ELSE IF var.kind = "malformed"
    THEN \* torch.tensor(var) raises
         [exc |-> Exc("ValueError", "coerce"), val |-> Unbound]
    ELSE IF requires_grad /\ ~IsFloating(dtype)
    THEN \* requires_grad_(True) on a non-floating tensor raises
         [exc |-> Exc("RuntimeError", "coerce"), val |-> Unbound]
    ELSE [exc |-> NoExc,
          val |-> DetachIf([var EXCEPT !.kind = "tensor", !.dtype = dtype,
                                       !.requires_grad = requires_grad,
                                       !.converted = TRUE], detach)]

(***************************************************************************)
(* The wrapped function and Python's binding of a call to its parameters   *)
(***************************************************************************)
ParamSet(f) == Range(f.params)
AnnotationKeys(f) == [k \in DOMAIN f.annotations |-> f.annotations[k].name]
IndexOf(seq, x) == CHOOSE k \in DOMAIN seq : seq[k] = x

\* func(*a, **kw): TypeError unless the call fits the declaration
BindsOk(f, a, kw) ==
    /\ Len(a) <= Len(f.params)
    /\ DOMAIN kw \subseteq ParamSet(f)
    /\ \A k \in 1..Len(a) : f.params[k] \notin DOMAIN kw
    /\ \A k \in DOMAIN f.params :
          \/ k <= Len(a)
          \/ f.params[k] \in DOMAIN kw
          \/ f.params[k] \in DOMAIN f.defaults

\* what each parameter receives when the call fits
Received(f, a, kw) ==
    [p \in ParamSet(f) |->
        IF IndexOf(f.params, p) <= Len(a) THEN a[IndexOf(f.params, p)]
        ELSE IF p \in DOMAIN kw THEN kw[p]
        ELSE f.defaults[p]]

Invocation(via, f, a, kw, raises) ==
    [via |-> via, args |-> a, kwargs |-> kw,
     entered |-> BindsOk(f, a, kw),
     received |-> IF BindsOk(f, a, kw) THEN Received(f, a, kw) ELSE EmptyDict,
     raised |-> ~BindsOk(f, a, kw) \/ raises]

(***************************************************************************)
(* The functions and calls of the model                                    *)
(***************************************************************************)
\* a function with n parameters, the last k of them with defaults, every
\* parameter annotated but `missing`, and a return annotation if withReturn
Function(n, k, anns, missing, withReturn) ==
    LET params == SubSeq(ParamNames, 1, n)
        items == [j \in 1..n |-> [name |-> params[j], annotation |-> anns[j]]]
        kept == SelectSeq(items, LAMBDA it : it.name \notin missing)
    IN  [params |-> params,
         defaults |-> [p \in {params[j] : j \in (n - k + 1)..n} |->
                          RawValue(DefaultOrigin(p), TRUE)],
         annotations |-> IF withReturn
                         THEN Append(kept, [name |-> ReturnKey, annotation |-> <<Tag("any")>>])
                         ELSE kept]

Functions ==
    UNION { { Function(n, k, anns, missing, withReturn) :
                k \in 0..n,
                anns \in [1..n -> Annotations],
                missing \in {{}, {ParamNames[n]}},
                withReturn \in BOOLEAN } :
            n \in 1..Len(ParamNames) }

\* a tensor as the differentiation engine sees it: complex or not, attached to
\* a differentiation graph or not, and the operations that produced it
ADTensor(cplx, graph, expr) == [cplx |-> cplx, graph |-> graph, expr |-> expr]
NoTensor == ADTensor(FALSE, FALSE, << >>)

GPending == [status |-> "pending", val |-> NoTensor, exc |-> NoExc]
GReturned(t) == [status |-> "returned", val |-> t, exc |-> NoExc]
GRaised(e) == [status |-> "raised", val |-> NoTensor, exc |-> e]

GIdle ==
    [pc |-> "idle", mode |-> "none", f |-> NoTensor, x |-> NoTensor, n |-> 0,
     create_graph |-> FALSE, out |-> NoTensor, iter |-> 0, cur |-> NoTensor,
     prim |-> << >>, grad_calls |-> 0, outcome |-> GPending]

Init ==
    /\ func \in Functions
    /\ \E m \in 0..MaxArgs :
          args \in {a \in [1..m -> UNION {ValuesFrom(PosOrigin(k)) : k \in 1..m}] :
                       \A k \in 1..m : a[k].origin = PosOrigin(k)}
    /\ \E names \in SUBSET (ParamSet(func) \cup {UnknownKw}) :
          /\ Cardinality(names) <= MaxKw
          /\ kwargs \in {kw \in [names -> UNION {KwValues(n) : n \in names}] :
                            \A n \in names : kw[n].origin = KwOrigin(n)}
    /\ pc = "assert"
    /\ all_kwargs = EmptyDict
    /\ torch_kwargs = EmptyDict
    /\ i = 1
    /\ v = Unbound
    /\ warnings = << >>
    /\ printed = << >>
    /\ calls = << >>
    /\ caught = NoExc
    /\ outcome = Pending
    /\ g = GIdle

(***************************************************************************)
(* torch_wrap (lines 63-90)                                                *)
(***************************************************************************)
\* lines 64-65: the assertion on the declared and the annotated names
AnnotationsMatch(f) == ParamSet(f) = Range(AnnotationKeys(f))

CheckAnnotations ==
    /\ pc = "assert"
    /\ IF AnnotationsMatch(func)
       THEN pc' = "bind" /\ outcome' = outcome
       ELSE pc' = "done" /\ outcome' = Raised(Exc("AssertionError", "assert"))
    /\ UNCHANGED <<func, args, kwargs, all_kwargs, torch_kwargs, i, v,
                   warnings, printed, calls, caught, g>>

\* lines 66-67: dict(zip(args_keys, args))
ArgsWithKeys(f, a) ==
    LET keys == AnnotationKeys(f)
        args_keys == SubSeq(keys, 1, Min(Len(a), Len(keys)))
    IN  [k \in Range(args_keys) |-> a[IndexOf(args_keys, k)]]

\* line 68
DefaultKwargs(f) == f.defaults

\* a merge in the wrong order: positional arguments laid over the keywords
AllKwargsPositionalLast(f, a, kw) ==
    Merge(Merge(DefaultKwargs(f), kw), ArgsWithKeys(f, a))

\* line 69: {**default_kwargs, **args_with_keys, **kwargs}
AllKwargs(f, a, kw) == Merge(Merge(DefaultKwargs(f), ArgsWithKeys(f, a)), kw)

\* lines 66-71
Bind ==
    /\ pc = "bind"
    /\ all_kwargs' = AllKwargs(func, args, kwargs)
    /\ torch_kwargs' = EmptyDict
    /\ i' = 1
    /\ pc' = "loop"
    /\ UNCHANGED <<func, args, kwargs, v, warnings, printed, calls, caught,
                   outcome, g>>

UnsupportedWarning == "unsupported annotation"
FailedWarning == "parsing to torch tensors failed for arguments"

\* an `any` branch that sends the value through to_torch like a `tensor` one
PassThroughCoerced(val) == ToTorch(val, FloatTensor, FALSE, FALSE).val

\* line 82: v = all_kwargs[var_name]
PassThrough(val) == val

\* lines 79-84: what the branch on the annotation does to v: [exc, v, warned]
Branch(annotation, var_name, bound, cur) ==
    IF In("tensor", annotation)
    THEN IF var_name \notin DOMAIN bound
         THEN [exc |-> Exc("KeyError", "coerce"), v |-> cur, warned |-> FALSE]
         ELSE LET r == ToTorch(bound[var_name], DTypeOf(annotation),
                               In("requires_grad", annotation),
                               In("detach", annotation))
              IN  [exc |-> r.exc,
                   v |-> IF r.exc = NoExc THEN r.val ELSE cur,
                   warned |-> FALSE]
    ELSE IF In("any", annotation)
    THEN IF var_name \notin DOMAIN bound
         THEN [exc |-> Exc("KeyError", "coerce"), v |-> cur, warned |-> FALSE]
         ELSE [exc |-> NoExc, v |-> PassThrough(bound[var_name]), warned |-> FALSE]
    ELSE [exc |-> NoExc, v |-> cur, warned |-> TRUE]

\* lines 72-85: one iteration of the loop over func.__annotations__.items()
LoopBody ==
    /\ pc = "loop"
    /\ i <= Len(func.annotations)
    /\ LET var_name == func.annotations[i].name
           b == Branch(func.annotations[i].annotation, var_name, all_kwargs, v)
       IN  /\ warnings' = IF b.warned THEN Append(warnings, UnsupportedWarning)
                                      ELSE warnings
           /\ v' = b.v
           /\ IF b.exc # NoExc
              THEN /\ pc' = "except"
                   /\ caught' = b.exc
                   /\ UNCHANGED <<torch_kwargs, i>>
              ELSE IF b.v = Unbound
              THEN \* line 85 reads v before any assignment
                   /\ pc' = "except"
                   /\ caught' = Exc("UnboundLocalError", "coerce")
                   /\ UNCHANGED <<torch_kwargs, i>>
              ELSE /\ torch_kwargs' = Store(torch_kwargs, var_name, b.v)
                   /\ i' = i + 1
                   /\ UNCHANGED <<pc, caught>>
    /\ UNCHANGED <<func, args, kwargs, all_kwargs, printed, calls, outcome, g>>

\* line 86: return func(**torch_kwargs)
Invoke ==
    /\ pc = "loop"
    /\ i > Len(func.annotations)
    /\ \E raises \in BOOLEAN :
          LET call == Invocation("coerced", func, << >>, torch_kwargs, raises)
          IN  /\ calls' = Append(calls, call)
              /\ IF call.raised
                 THEN /\ pc' = "except"
                      /\ caught' = Exc(IF call.entered THEN "TargetError" ELSE "TypeError",
                                        "invoke")
                      /\ outcome' = outcome
                 ELSE /\ pc' = "done"
                      /\ caught' = caught
                      /\ outcome' = Returned(Ret(call.received))
    /\ UNCHANGED <<func, args, kwargs, all_kwargs, torch_kwargs, i, v,
                   warnings, printed, g>>

\* a fallback that hands over the bound argument set instead of the call's own
FallbackCallBound == [args |-> << >>, kwargs |-> all_kwargs]

\* line 90: the arguments of the fallback invocation
FallbackCall == [args |-> args, kwargs |-> kwargs]

\* lines 87-90: the bare except
Fallback ==
    /\ pc = "except"
    /\ warnings' = Append(warnings, FailedWarning)
    /\ printed' = Append(printed, all_kwargs)
    /\ \E raises \in BOOLEAN :
          LET call == Invocation("fallback", func, FallbackCall.args,
                                 FallbackCall.kwargs, raises)
          IN  /\ calls' = Append(calls, call)
              /\ outcome' = IF call.raised
                            THEN Raised(Exc(IF call.entered THEN "TargetError"
                                                            ELSE "TypeError", "fallback"))
                            ELSE Returned(Ret(call.received))
    /\ pc' = "done"
    /\ UNCHANGED <<func, args, kwargs, all_kwargs, torch_kwargs, i, v, caught, g>>

Next == CheckAnnotations \/ Bind \/ LoopBody \/ Invoke \/ Fallback

Spec == Init /\ [][Next]_vars

(***************************************************************************)
(* Properties of torch_wrap, checked under Spec                            *)
(***************************************************************************)
\* torch_wrap has passed line 69: all_kwargs is the bound argument set
HasBound == pc \in {"loop", "except"} \/ (pc = "done" /\ outcome.exc.step # "assert")

Annotated(f) == Range(AnnotationKeys(f))
AnnotationOf(f, p) == f.annotations[IndexOf(AnnotationKeys(f), p)].annotation
DeclIndex(f, p) == IndexOf(f.params, p)

IsAnyParam(f, p) ==
    p \in Annotated(f) /\ In("any", AnnotationOf(f, p)) /\ ~In("tensor", AnnotationOf(f, p))
IsTensorParam(f, p) == p \in Annotated(f) /\ In("tensor", AnnotationOf(f, p))
IsUnsupportedParam(f, p) ==
    p \in Annotated(f) /\ ~In("any", AnnotationOf(f, p)) /\ ~In("tensor", AnnotationOf(f, p))

\* C1: once bound, every parameter p maps to its keyword value if a keyword
\* names it, else to the positional value at its declaration index if that
\* many positional arguments were given, else to its declared default, and is
\* absent from all_kwargs when none of the three supplies it.
C1_Precedence ==
    HasBound =>
      \A p \in ParamSet(func) :
         IF p \in DOMAIN kwargs
         THEN p \in DOMAIN all_kwargs /\ all_kwargs[p] = kwargs[p]
         ELSE IF DeclIndex(func, p) <= Len(args)
         THEN p \in DOMAIN all_kwargs /\ all_kwargs[p] = args[DeclIndex(func, p)]
         ELSE IF p \in DOMAIN func.defaults
         THEN p \in DOMAIN all_kwargs /\ all_kwargs[p] = func.defaults[p]
         ELSE p \notin DOMAIN all_kwargs

\* a parameter with a default, given positionally and by keyword at once, and
\* another one left to its default
C1_Witness ==
    /\ HasBound
    /\ \E p \in ParamSet(func) :
          /\ p \in DOMAIN kwargs
          /\ DeclIndex(func, p) <= Len(args)
          /\ kwargs[p] # args[DeclIndex(func, p)]
          /\ all_kwargs[p].origin.src = "keyword"
    /\ \E q \in ParamSet(func) :
          q \in DOMAIN all_kwargs /\ all_kwargs[q].origin.src = "default"

LastCall == calls[Len(calls)]

\* C2: when a step inside the try raised (a coercion, the read of v, the
\* coerced invocation), the failure warning is emitted, the bound argument set
\* is printed, the target is invoked with exactly the call's own args and
\* kwargs, the call ends as that invocation ends (its return value is
\* returned), and the exception of the failed step does not reach the caller.
C2_Fallback ==
    /\ (pc = "except" => caught # NoExc /\ outcome = Pending)
    /\ (pc = "done" /\ caught # NoExc) =>
          /\ warnings # << >> /\ warnings[Len(warnings)] = FailedWarning
          /\ printed = <<all_kwargs>>
          /\ calls # << >>
          /\ LastCall.via = "fallback"
          /\ LastCall.args = args
          /\ LastCall.kwargs = kwargs
          /\ \A k \in 1..(Len(calls) - 1) : calls[k].via # "fallback"
          /\ IF LastCall.raised
             THEN outcome.status = "raised" /\ outcome.exc.step = "fallback"
             ELSE outcome = Returned(Ret(Received(func, args, kwargs)))
          /\ outcome.exc # caught

\* a malformed tensor input made the coercion raise, and the call returned
\* what the target made of the original arguments
C2_Witness ==
    /\ pc = "done"
    /\ caught = Exc("ValueError", "coerce")
    /\ outcome.status = "returned"
    /\ Len(args) >= 1
    /\ args[1].kind = "malformed"
    /\ outcome.ret.received[func.params[1]] = args[1]

\* C3 (first half): a function whose declared and annotated names differ fails
\* every call at the assertion, with nothing else done.
C3_FailFast ==
    (pc # "assert" /\ ParamSet(func) # Annotated(func)) =>
        /\ pc = "done"
        /\ outcome = Raised(Exc("AssertionError", "assert"))
        /\ calls = << >> /\ warnings = << >> /\ printed = << >>
        /\ torch_kwargs = EmptyDict /\ caught = NoExc

\* C3: names that differ fail fast, and conversely the check passes whenever
\* every declared parameter is annotated.
C3_Claim ==
    /\ C3_FailFast
    /\ (pc # "assert" /\ ParamSet(func) \subseteq Annotated(func)) =>
          outcome.exc # Exc("AssertionError", "assert")

\* C4: the coerced invocation is made with exactly the keys of all_kwargs.
C4_Claim ==
    \A k \in DOMAIN calls :
       calls[k].via = "coerced" => DOMAIN calls[k].kwargs = DOMAIN all_kwargs

\* C5: whenever the target function runs, in the coerced invocation or in the
\* fallback one, each parameter annotated `any` receives the very object the
\* bound argument set holds for it.
C5_AnyUnchanged ==
    \A k \in DOMAIN calls :
       calls[k].entered =>
         \A p \in ParamSet(func) :
            IsAnyParam(func, p) =>
              /\ p \in DOMAIN all_kwargs
              /\ calls[k].received[p] = all_kwargs[p]

\* a tensor passed for an `any` parameter reaches the target in the coerced
\* invocation, beside a parameter that was coerced
C5_Witness ==
    /\ pc = "done"
    /\ \E k \in DOMAIN calls :
          /\ calls[k].via = "coerced" /\ calls[k].entered
          /\ \E p, q \in ParamSet(func) :
                /\ IsAnyParam(func, p)
                /\ calls[k].received[p] = all_kwargs[p]
                /\ all_kwargs[p].kind = "tensor"
                /\ IsTensorParam(func, q)
                /\ calls[k].received[q].converted

\* the representation an annotation asks for
RequestedDType(annotation) ==
    IF \A k \in DOMAIN annotation : ~annotation[k].isdict
    THEN FloatTensor
    ELSE annotation[CHOOSE k \in DOMAIN annotation :
                      /\ annotation[k].isdict
                      /\ \A j \in 1..(k - 1) : ~annotation[j].isdict].s

\* C6: the coerced value of a parameter annotated `tensor` is a tensor made of
\* the bound value, of the requested dtype (FloatTensor without a modifier),
\* and with gradient tracking off when `detach` is present, whatever the
\* input was and whether or not `requires_grad` is present too.
C6_TensorCoerced ==
    \A p \in DOMAIN torch_kwargs :
       IsTensorParam(func, p) =>
         /\ torch_kwargs[p].kind = "tensor"
         /\ torch_kwargs[p].converted
         /\ torch_kwargs[p].origin = all_kwargs[p].origin
         /\ torch_kwargs[p].dtype = RequestedDType(AnnotationOf(func, p))
         /\ In("detach", AnnotationOf(func, p)) => ~torch_kwargs[p].requires_grad

\* a tracked tensor coerced under `detach` together with `requires_grad`
C6_Witness ==
    \E p \in DOMAIN torch_kwargs :
       /\ IsTensorParam(func, p)
       /\ In("detach", AnnotationOf(func, p))
       /\ In("requires_grad", AnnotationOf(func, p))
       /\ all_kwargs[p].kind = "tensor"
       /\ all_kwargs[p].requires_grad
       /\ ~torch_kwargs[p].requires_grad

\* C9: the coerced invocation is never made with a value stored under the
\* name of a parameter whose annotation has neither `tensor` nor `any`.
C9_Claim ==
    \A k \in DOMAIN calls :
       calls[k].via = "coerced" =>
         \A p \in ParamSet(func) :
            IsUnsupportedParam(func, p) => p \notin DOMAIN calls[k].kwargs

\* C10: one call of the adapted function invokes the target at most once.
C10_Claim == Len(calls) <= 1

(***************************************************************************)
(* grad (lines 94-106) and nth_grad (lines 115-119)                        *)
(***************************************************************************)
NoSeed == "none"
\* torch.tensor([1.0+0j])
UnitSeed == "1+0j"

\* torch.is_complex
IsComplex(t) == t.cplx

\* torch.autograd.grad(f, x, grad_outputs=seed, create_graph=create_graph)[0]:
\* [exc, val]. It refuses an output that is not attached to a graph, and a
\* complex output without grad_outputs; the gradient has the type of x.
AutogradGrad(f, x, seed, create_graph) ==
    IF ~f.graph \/ (f.cplx /\ seed = NoSeed)
    THEN [exc |-> Exc("RuntimeError", "primitive"), val |-> NoTensor]
    ELSE [exc |-> NoExc,
          val |-> ADTensor(x.cplx, create_graph, Append(f.expr, "d"))]

\* .conj()
Conj(t) == [t EXCEPT !.expr = Append(@, "conj")]

\* lines 102-103: the seed grad hands to the primitive
SeedFor(f) == IF IsComplex(f) THEN UnitSeed ELSE NoSeed

\* a grad that returns the primitive's result as it is
FinishNoConj(f, r) == r

\* lines 104, 106: what grad makes of the primitive's first result
Finish(f, r) == IF IsComplex(f) THEN Conj(r) ELSE r

\* line 117: range(n) has another element after `iter` iterations
LoopContinues(iter, n) == iter < n

\* an iteration that differentiates f again instead of the previous result
LoopArgumentFirst(f, out) == f

\* line 118: what an iteration differentiates
LoopArgument(f, out) == out

GradInputs ==
    { ADTensor(c, gr, <<"f">>) : c \in BOOLEAN, gr \in BOOLEAN }

GradPoints == { ADTensor(c, TRUE, <<"x">>) : c \in BOOLEAN }

GradInit ==
    /\ func = Function(1, 0, [j \in 1..1 |-> <<Tag("any")>>], {}, FALSE)
    /\ args = << >>
    /\ kwargs = EmptyDict
    /\ pc = "idle"
    /\ all_kwargs = EmptyDict
    /\ torch_kwargs = EmptyDict
    /\ i = 1
    /\ v = Unbound
    /\ warnings = << >>
    /\ printed = << >>
    /\ calls = << >>
    /\ caught = NoExc
    /\ outcome = Pending
    /\ \E f \in GradInputs, x \in GradPoints :
          \/ \E cg \in BOOLEAN :
                g = [GIdle EXCEPT !.pc = "grad_check", !.mode = "grad", !.f = f,
                                  !.x = x, !.create_graph = cg, !.cur = f,
                                  !.grad_calls = 1]
          \/ \E n \in 0..MaxOrder :
                g = [GIdle EXCEPT !.pc = "nth_loop", !.mode = "nth_grad", !.f = f,
                                  !.x = x, !.n = n, !.out = f]

\* lines 116-119: the loop of nth_grad; an iteration calls grad(out, x)
NthLoop ==
    /\ g.pc = "nth_loop"
    /\ IF LoopContinues(g.iter, g.n)
       THEN g' = [g EXCEPT !.pc = "grad_check",
                           !.cur = LoopArgument(g.f, g.out),
                           !.create_graph = TRUE,
                           !.iter = @ + 1,
                           !.grad_calls = @ + 1]
       ELSE g' = [g EXCEPT !.pc = "done", !.outcome = GReturned(g.out)]
    /\ UNCHANGED wrapVars

\* lines 100-101: the assertion on a complex output
GradCheck ==
    /\ g.pc = "grad_check"
    /\ IF IsComplex(g.cur) /\ ~IsComplex(g.x)
       THEN g' = [g EXCEPT !.pc = "done",
                           !.outcome = GRaised(Exc("AssertionError", "assert"))]
       ELSE g' = [g EXCEPT !.pc = "grad_prim"]
    /\ UNCHANGED wrapVars

\* lines 102-106: the call of the primitive and the return
GradPrimitive ==
    /\ g.pc = "grad_prim"
    /\ LET seed == SeedFor(g.cur)
           r == AutogradGrad(g.cur, g.x, seed, g.create_graph)
           call == [f |-> g.cur, x |-> g.x, seed |-> seed,
                    create_graph |-> g.create_graph, result |-> r]
       IN  IF r.exc # NoExc
           THEN g' = [g EXCEPT !.pc = "done", !.prim = Append(@, call),
                               !.outcome = GRaised(r.exc)]
           ELSE IF g.mode = "grad"
           THEN g' = [g EXCEPT !.pc = "done", !.prim = Append(@, call),
                               !.outcome = GReturned(Finish(g.cur, r.val))]
           ELSE g' = [g EXCEPT !.pc = "nth_loop", !.prim = Append(@, call),
                               !.out = Finish(g.cur, r.val)]
    /\ UNCHANGED wrapVars

GradNext == NthLoop \/ GradCheck \/ GradPrimitive

GradSpec == GradInit /\ [][GradNext]_vars

(***************************************************************************)
(* Properties of grad and nth_grad, checked under GradSpec                 *)
(***************************************************************************)
\* grad(f, x) as a function of its arguments, with create_graph left at True
GradValue(f, x) ==
    IF IsComplex(f) /\ ~IsComplex(x)
    THEN GRaised(Exc("AssertionError", "assert"))
    ELSE LET r == AutogradGrad(f, x, SeedFor(f), TRUE)
         IN  IF r.exc # NoExc THEN GRaised(r.exc) ELSE GReturned(Finish(f, r.val))

\* grad applied n times in sequence, starting from f, each time to the
\* previous result and the same x
RECURSIVE GradTimes(_, _, _)
GradTimes(f, x, n) ==
    IF n = 0 THEN GReturned(f)
    ELSE LET prev == GradTimes(f, x, n - 1)
         IN  IF prev.status = "raised" THEN prev ELSE GradValue(prev.val, x)

GradDone == g.mode = "grad" /\ g.pc = "done"
NthDone == g.mode = "nth_grad" /\ g.pc = "done"

\* C7: grad with a complex f and a non-complex x fails at the assertion with
\* the primitive never invoked; with complex f and complex x the primitive is
\* invoked exactly once, on f and x with seed 1+0j, and grad returns its
\* result conjugated; with a real f it is invoked exactly once with no seed
\* and grad returns its result as it is.
C7_Grad ==
    /\ g.mode = "grad" => Len(g.prim) <= 1
    /\ GradDone =>
         IF IsComplex(g.f) /\ ~IsComplex(g.x)
         THEN /\ g.outcome = GRaised(Exc("AssertionError", "assert"))
              /\ g.prim = << >>
         ELSE /\ Len(g.prim) = 1
              /\ g.prim[1].f = g.f
              /\ g.prim[1].x = g.x
              /\ g.prim[1].create_graph = g.create_graph
              /\ g.prim[1].seed = (IF IsComplex(g.f) THEN UnitSeed ELSE NoSeed)
              /\ IF g.prim[1].result.exc # NoExc
                 THEN g.outcome = GRaised(g.prim[1].result.exc)
                 ELSE /\ g.outcome.status = "returned"
                      /\ g.outcome.val.cplx = g.prim[1].result.val.cplx
                      /\ g.outcome.val.graph = g.prim[1].result.val.graph
                      /\ g.outcome.val.expr =
                            (IF IsComplex(g.f)
                             THEN Append(g.prim[1].result.val.expr, "conj")
                             ELSE g.prim[1].result.val.expr)

\* a complex f differentiated at a complex x: the conjugated gradient returned
C7_Witness ==
    /\ GradDone
    /\ IsComplex(g.f) /\ IsComplex(g.x)
    /\ g.outcome.status = "returned"
    /\ g.outcome.val.expr = <<"f", "d", "conj">>

\* C8: nth_grad(f, x, n) ends as grad applied n times in sequence ends, with
\* grad invoked exactly n times, whatever f, x and n are.
C8_Claim ==
    NthDone =>
      /\ g.outcome = GradTimes(g.f, g.x, g.n)
      /\ g.grad_calls = g.n

\* C8 as amended: nth_grad(f, x, n) ends as grad applied n times in sequence
\* ends (the same value, or the same exception); nth_grad(f, x, 0) returns f
\* with grad never invoked; nth_grad(f, x, 2) ends as grad(grad(f, x), x);
\* every invocation differentiates the previous result at the same x with
\* graph retention on; grad is invoked exactly n times when no invocation
\* raises, and the loop stops at the first invocation that raises; the loop
\* never runs more than n iterations and never stalls before the return.
C8_NthGrad ==
    /\ g.mode = "nth_grad" =>
         /\ g.iter <= g.n
         /\ g.grad_calls = g.iter
         /\ \A k \in DOMAIN g.prim :
               /\ g.prim[k].create_graph
               /\ g.prim[k].x = g.x
               /\ g.prim[k].f = GradTimes(g.f, g.x, k - 1).val
         /\ (g.pc # "done" => ENABLED GradNext)
    /\ NthDone =>
         /\ g.outcome = GradTimes(g.f, g.x, g.n)
         /\ (g.n = 0 => g.outcome = GReturned(g.f) /\ g.grad_calls = 0)
         /\ (g.n = 2 =>
               g.outcome = (IF GradValue(g.f, g.x).status = "raised"
                            THEN GradValue(g.f, g.x)
                            ELSE GradValue(GradValue(g.f, g.x).val, g.x)))
         /\ (g.outcome.status = "returned" =>
               g.grad_calls = g.n /\ Len(g.prim) = g.n)
         /\ (g.outcome.status = "raised" =>
               /\ 1 <= g.grad_calls /\ g.grad_calls <= g.n
               /\ GradTimes(g.f, g.x, g.grad_calls).status = "raised"
               /\ GradTimes(g.f, g.x, g.grad_calls - 1).status = "returned")

\* a second derivative: two invocations, the second one of the first's result
C8_Witness ==
    /\ NthDone
    /\ g.n = 2
    /\ g.grad_calls = 2
    /\ g.outcome.status = "returned"
    /\ g.outcome.val.expr = <<"f", "d", "d">>
    /\ g.prim[2].f.expr = <<"f", "d">>

====
